---------------------------- MODULE Spec2Model ----------------------------
(***************************************************************************)
(* A model of microactor's selecting reactor (reactors/selecting.py) and   *)
(* of its stream transport adapters (utils/transports.py).                 *)
(*                                                                         *)
(* The adapters are generator coroutines: a method runs until it yields a  *)
(* Deferred of the inner transport and is resumed when that Deferred       *)
(* resolves.  A coroutine is modelled as a stack of frames, one per        *)
(* method that is executing; the frame on top is either the pending call   *)
(* on the inner transport or, between two steps, none at all.  One action  *)
(* starts a method call, one action per kind of inner operation resolves   *)
(* the pending Deferred, and both then run the coroutine up to its next    *)
(* yield on the inner transport (the operator Run).                        *)
(*                                                                         *)
(* Bytes are the integers 0..255, byte strings are sequences of bytes.     *)
(***************************************************************************)
EXTENDS Integers, Sequences, FiniteSets, TLC

VARIABLES
    read_transports,   \* SelectingReactor._read_transports : fd -> transport
    write_transports,  \* SelectingReactor._write_transports: fd -> transport
    call,              \* the last call made on the reactor and how it ended
    queue,             \* the reactor's callback queue, oldest first
    bad_fds,           \* the descriptors the operating system holds invalid
    dfr,               \* the Deferreds FilesSubsystem.open has returned
    cfg,               \* the adapters' constructor arguments
    rbuf,              \* BufferedTransport._rbuf
    wbuf,              \* BufferedTransport._wbuf
    rlength,           \* BoundTransport._rlength
    wlength,           \* BoundTransport._wlength
    decoder,           \* CodecTransport.decoder: the bytes it holds back
    out_closed,        \* whether DuplexStreamTransport.out_transport is closed
    stacks,            \* per task, the frames of its coroutine
    inner_in,          \* the bytes the inner transport has still to deliver
    inner_eof,         \* whether the inner transport is at EOF once drained
    inner_out,         \* the bytes the inner transport's write has accepted
    inner_closed,      \* whether the inner transport has been closed
    inner_ops,         \* the tasks with a write or close pending on the
                       \* inner transport, oldest first
    task,              \* per task, its outermost call and how it ended
    stream,            \* history: all bytes the inner transport was given
    returned,          \* history: the bytes returned to readers, in order
    only_reads,        \* history: no call but read, read_exactly, read_all
    written,           \* history: the data passed to write(), in order
    sent,              \* history: the payloads passed to send(), in order
    received,          \* history: the outcomes of recv(), in order
    ncalls             \* the number of calls made so far

reactorVars == <<read_transports, write_transports, call>>

loopVars == <<queue, bad_fds, dfr>>

adapterVars ==
    <<cfg, rbuf, wbuf, rlength, wlength, decoder, out_closed, stacks,
      inner_in, inner_eof, inner_out, inner_closed, inner_ops, task, stream,
      returned, only_reads, written, sent, received, ncalls>>

vars == <<reactorVars, loopVars, adapterVars>>

None == "None"

\* The two coroutines a specification runs at most.
Tasks == {"a", "b"}

\* The most calls of adapter methods in a run.
MaxCalls == 4

\* The constructor arguments of an adapter stack with everything at its
\* default: a writable inner transport, no packet limit, no quotas.  adapter
\* is the class of the adapter, where a run is about one adapter.
DefaultCfg ==
    [writable |-> TRUE, max_length |-> 0, read_unbounded |-> TRUE,
     write_unbounded |-> TRUE, read_length |-> 0, write_length |-> 0,
     skip_on_close |-> TRUE, close_underlying |-> TRUE,
     adapter |-> "BufferedTransport"]

\* The adapters as constructed with arguments c over an inner transport
\* that holds the bytes s, and is at EOF after them if eof.
AdapterInit(c, s, eof) ==
    /\ cfg = c
    /\ rbuf = <<>> /\ wbuf = <<>>
    /\ rlength = c.read_length /\ wlength = c.write_length
    /\ decoder = <<>> /\ out_closed = FALSE
    /\ stacks = [t \in Tasks |-> <<>>]
    /\ inner_in = s /\ inner_eof = eof /\ inner_out = <<>>
    /\ inner_closed = FALSE /\ inner_ops = <<>>
    /\ task = [t \in Tasks |-> [out |-> [k |-> "none"]]]
    /\ stream = s /\ returned = <<>> /\ only_reads = TRUE
    /\ written = <<>> /\ sent = <<>> /\ received = <<>> /\ ncalls = 0

(***************************************************************************)
(*                      reactors/selecting.py                              *)
(***************************************************************************)

\* The transports handed to the reactor.  t1 and t2 are two transports over
\* the same descriptor (a socket wrapped twice, or a descriptor number that
\* was closed and reused); u1 and u2 likewise.
Transports == {"t1", "t2", "u1", "u2"}

\* transport.fileno()
fileno(t) == IF t \in {"t1", "t2"} THEN 3 ELSE 4

FDs == {fileno(t) : t \in Transports}

\* SelectingReactor.__init__: both maps are empty dicts.  A dict is modelled
\* as a function from key to value, None for an absent key.
ReactorInit ==
    /\ read_transports = [fd \in FDs |-> None]
    /\ write_transports = [fd \in FDs |-> None]
    /\ call = [op |-> "init", t |-> None, err |-> None]
    /\ queue = <<>>
    /\ bad_fds = {}
    /\ dfr = <<>>

\* A variant of register_read that leaves the conflict check out.
register_read_unchecked(transport) ==
    LET fd == fileno(transport) IN
    /\ read_transports' = [read_transports EXCEPT ![fd] = transport]
    /\ call' = [op |-> "register_read", t |-> transport, err |-> None]
    /\ UNCHANGED write_transports

register_read(transport) ==
    LET fd == fileno(transport) IN
    IF read_transports[fd] # None /\ read_transports[fd] # transport
    THEN /\ call' = [op |-> "register_read", t |-> transport,
                     err |-> "ReactorError"]
         /\ UNCHANGED <<read_transports, write_transports>>
    ELSE /\ read_transports' = [read_transports EXCEPT ![fd] = transport]
         /\ call' = [op |-> "register_read", t |-> transport, err |-> None]
         /\ UNCHANGED write_transports

register_write(transport) ==
    LET fd == fileno(transport) IN
    IF write_transports[fd] # None /\ write_transports[fd] # transport
    THEN /\ call' = [op |-> "register_write", t |-> transport,
                     err |-> "ReactorError"]
         /\ UNCHANGED <<read_transports, write_transports>>
    ELSE /\ write_transports' = [write_transports EXCEPT ![fd] = transport]
         /\ call' = [op |-> "register_write", t |-> transport, err |-> None]
         /\ UNCHANGED read_transports

\* dict.pop(fd, None): removes the key whatever transport holds it.
unregister_read(transport) ==
    LET fd == fileno(transport) IN
    /\ read_transports' = [read_transports EXCEPT ![fd] = None]
    /\ call' = [op |-> "unregister_read", t |-> transport, err |-> None]
    /\ UNCHANGED write_transports

unregister_write(transport) ==
    LET fd == fileno(transport) IN
    /\ write_transports' = [write_transports EXCEPT ![fd] = None]
    /\ call' = [op |-> "unregister_write", t |-> transport, err |-> None]
    /\ UNCHANGED read_transports

ReactorNext ==
    /\ \/ \E t \in Transports : register_read(t)
       \/ \E t \in Transports : register_write(t)
       \/ \E t \in Transports : unregister_read(t)
       \/ \E t \in Transports : unregister_write(t)
    /\ UNCHANGED <<loopVars, adapterVars>>

\* The reactor as constructed; the adapters of utils/transports.py are not
\* used by it and stay as constructed.
SelectingInit ==
    /\ ReactorInit
    /\ AdapterInit(DefaultCfg, <<>>, TRUE)

SpecReactor == SelectingInit /\ [][ReactorNext]_vars

\* C1: registering a transport for a direction whose fd slot is held by a
\* different transport fails with ReactorError and leaves both maps as they
\* were; every other registration succeeds, installs the transport in the
\* map of its own direction and leaves the other map alone, so two
\* transports over one fd can hold one direction each.  (That a map holds at
\* most one transport per fd is what a dict is; the model's function has it
\* by construction.)
C1_RegisterStep(op, own, other) ==
    \A t \in Transports :
        (call'.op = op /\ call'.t = t) =>
            IF own[fileno(t)] \notin {None, t}
            THEN call'.err = "ReactorError" /\ own' = own /\ other' = other
            ELSE /\ call'.err = None
                 /\ own' = [own EXCEPT ![fileno(t)] = t]
                 /\ other' = other

C1_RegisterConflict ==
    [][/\ C1_RegisterStep("register_read", read_transports, write_transports)
       /\ C1_RegisterStep("register_write", write_transports, read_transports)
      ]_vars

\* A registration for read has just been refused because another transport
\* holds the fd, while the refused transport holds the same fd for write.
C1_Witness ==
    /\ call.op = "register_read"
    /\ call.err = "ReactorError"
    /\ write_transports[fileno(call.t)] = call.t
    /\ read_transports[fileno(call.t)] \notin {None, call.t}

\* What C19 says of a step that unregisters: op is the call, own the map of
\* its direction and other the other map.
C19_UnregisterStep(op, own, other) ==
    \A t \in Transports :
        (call'.op = op /\ call'.t = t) =>
            /\ call'.err = None
            /\ other' = other
            /\ own' = IF own[fileno(t)] = t
                      THEN [own EXCEPT ![fileno(t)] = None]
                      ELSE own

\* C19: unregister_read(t) / unregister_write(t) removes only t's own
\* registration: a different transport that holds t's fd in that direction
\* keeps it, and unregistering a transport that is not registered changes
\* neither map and raises nothing.
C19_UnregisterOwn ==
    [][/\ C19_UnregisterStep("unregister_read", read_transports, write_transports)
       /\ C19_UnregisterStep("unregister_write", write_transports, read_transports)
      ]_vars

(***************************************************************************)
(*                 utils/transports.py: byte strings                       *)
(***************************************************************************)

Min(S) == CHOOSE x \in S : \A y \in S : x <= y

Max(S) == CHOOSE x \in S : \A y \in S : x >= y

\* s[:n] for n >= 0
Take(s, n) == SubSeq(s, 1, Min({n, Len(s)}))

\* s[n:] for n >= 0
Drop(s, n) == SubSeq(s, Min({n, Len(s)}) + 1, Len(s))

\* str.find(pat, start) for a nonempty pat: the lowest 0-based index >= start
\* at which pat occurs in s, or -1.  A negative start counts from the end of
\* s, and from 0 when it reaches before the beginning.
Find(s, pat, start) ==
    LET st == IF start >= 0 THEN start
              ELSE IF start + Len(s) >= 0 THEN start + Len(s) ELSE 0
        at == {i \in st .. (Len(s) - Len(pat)) :
                  SubSeq(s, i + 1, i + Len(pat)) = pat}
    IN  IF at = {} THEN -1 ELSE Min(at)

(***************************************************************************)
(*          The coroutines: frames, and what a step of one yields          *)
(*                                                                         *)
(* h is the adapters' mutable fields (the operator Heap below).  A         *)
(* method is given as what it does when called (f is its frame, holding    *)
(* its arguments and locals), and what it does when the Deferred it        *)
(* yielded resolves with v (<name>_resume) or fails (<name>_throw).  Each  *)
(* answers with one of: Call (yield the Deferred of a callee), Ret         *)
(* (rreturn, or falling off the end) and Raise.                            *)
(***************************************************************************)

Call(h, self, callee) ==
    [k |-> "call", h |-> h, self |-> self, callee |-> callee]

Ret(h, v) == [k |-> "ret", h |-> h, v |-> v]

Raise(h, e, v) == [k |-> "raise", h |-> h, e |-> e, v |-> v]

\* The calls on the inner transport (StreamTransportAdapter.transport).
inner_read(count) == [fn |-> "inner.read", count |-> count]

inner_write(data) == [fn |-> "inner.write", data |-> data]

inner_close == [fn |-> "inner.close"]

\* DuplexStreamTransport.out_transport.close(); its in_transport is the
\* inner transport above.
out_close == [fn |-> "out.close"]

IsInner(f) == f.fn \in {"inner.read", "inner.write", "inner.close", "out.close"}

\* raw is None
IsNone(v) == ToString(v) = ToString(None)

(***************************************************************************)
(*                         BufferedTransport                               *)
(***************************************************************************)

\* read_buffer_size (16000 by default), scaled down.
RBufSize == 5

\* read_all's chunk (16000 by default), scaled down.
ChunkSize == 3

\* BufferedTransport._fill_rbuf(count)
_fill_rbuf(f, h) ==
    IF f.count > 0
    THEN Call(h, f, inner_read(f.count))
    ELSE Ret(h, FALSE)

_fill_rbuf_resume(f, h, data) ==
    IF data = <<>>
    THEN Ret(h, TRUE)
    ELSE LET h2 == [h EXCEPT !.rbuf = h.rbuf \o data] IN
         IF Len(data) < f.count
         THEN Ret(h2, FALSE)
         ELSE _fill_rbuf([f EXCEPT !.count = f.count - Len(data)], h2)

\* except TransportClosed: data = None
_fill_rbuf_throw(f, h, e, v) ==
    IF e = "TransportClosed" THEN Ret(h, TRUE) ELSE Raise(h, e, v)

\* data = self._rbuf[:count]; self._rbuf = self._rbuf[count:]; rreturn(data)
Buffered_read_slice(f, h) ==
    Ret([h EXCEPT !.rbuf = Drop(h.rbuf, f.count)], Take(h.rbuf, f.count))

\* BufferedTransport.read(count)
Buffered_read(f, h) ==
    IF f.count < 0
    THEN Call(h, [f EXCEPT !.pc = "read_all"],
              [fn |-> "Buffered.read_all", chunk |-> ChunkSize, chunks |-> <<>>])
    ELSE IF f.count > Len(h.rbuf)
    THEN Call(h, [f EXCEPT !.pc = "fill"],
              [fn |-> "Buffered._fill_rbuf", count |-> RBufSize - Len(h.rbuf)])
    ELSE Buffered_read_slice(f, h)

Buffered_read_resume(f, h, v) ==
    IF f.pc = "read_all" THEN Ret(h, v) ELSE Buffered_read_slice(f, h)

\* data = "".join(buffer), and the end of read_exactly
read_exactly_end(f, h) ==
    IF f.raise_on_eof /\ f.count > 0
    THEN Raise(h, "EOFError", f.buffer)
    ELSE Ret(h, f.buffer)

\* BufferedTransport.read_exactly(count, raise_on_eof): "while count > 0"
read_exactly(f, h) ==
    IF f.count > 0
    THEN Call(h, f, [fn |-> "Buffered.read", count |-> f.count, pc |-> "start"])
    ELSE read_exactly_end(f, h)

\* A variant of read_exactly_resume that keeps only the last piece read.
read_exactly_resume_overwrite(f, h, data) ==
    IF data = <<>>
    THEN read_exactly_end(f, h)
    ELSE read_exactly([f EXCEPT !.count = f.count - Len(data),
                                !.buffer = data], h)

read_exactly_resume(f, h, data) ==
    IF data = <<>>
    THEN read_exactly_end(f, h)
    ELSE read_exactly([f EXCEPT !.count = f.count - Len(data),
                                !.buffer = f.buffer \o data], h)

\* A variant of read_all that forgets what the read buffer holds.
read_all_forgets_rbuf(f, h) ==
    Call([h EXCEPT !.rbuf = <<>>], [f EXCEPT !.chunks = <<>>],
         inner_read(f.chunk))

\* BufferedTransport.read_all(chunk)
read_all(f, h) ==
    Call([h EXCEPT !.rbuf = <<>>], [f EXCEPT !.chunks = h.rbuf],
         inner_read(f.chunk))

read_all_resume(f, h, data) ==
    IF data = <<>>
    THEN Ret(h, f.chunks)
    ELSE Call(h, [f EXCEPT !.chunks = f.chunks \o data], inner_read(f.chunk))

\* The body of read_until's "while True": the patterns are tried in the
\* order given and the first one found from last_index on ends the call;
\* the else branch of the for loop runs when none was found.
read_until_loop(f, h) ==
    LET found == {i \in 1 .. Len(f.patterns) :
                     Find(h.rbuf, f.patterns[i], f.last_index) >= 0}
    IN  IF found # {}
        THEN LET pat == f.patterns[Min(found)]
                 ind == Find(h.rbuf, pat, f.last_index)
                 data == IF f.include_pattern
                         THEN Take(h.rbuf, ind + Len(pat))
                         ELSE Take(h.rbuf, ind)
             IN  Ret([h EXCEPT !.rbuf = Drop(h.rbuf, ind + Len(pat))], data)
        ELSE IF f.eof
        THEN IF f.raise_on_eof
             THEN Raise(h, "EOFError", <<>>)
             ELSE Ret([h EXCEPT !.rbuf = <<>>], h.rbuf)
        ELSE Call(h, f, [fn |-> "Buffered._fill_rbuf", count |-> RBufSize])

\* BufferedTransport.read_until(patterns, raise_on_eof, include_pattern)
read_until(f, h) == read_until_loop(f, h)

\* eof = yield self._fill_rbuf(...); last_index = len(rbuf) - longest_pattern
read_until_resume(f, h, eof) ==
    LET longest_pattern == Max({Len(f.patterns[i]) : i \in 1 .. Len(f.patterns)})
    IN  read_until_loop([f EXCEPT !.eof = eof,
                                  !.last_index = Len(h.rbuf) - longest_pattern],
                        h)

CR == 13

LF == 10

\* BufferedTransport.read_line(include_newline)
read_line(include_newline) ==
    [fn |-> "Buffered.read_until", patterns |-> <<<<CR, LF>>, <<CR>>, <<LF>>>>,
     raise_on_eof |-> FALSE, include_pattern |-> include_newline,
     eof |-> FALSE, last_index |-> 0]


\* write_buffer_size (16000 by default), scaled down.
WBufSize == 2

\* BufferedTransport.flush(): the buffer is emptied, then written.
flush(f, h) ==
    Call([h EXCEPT !.wbuf = <<>>], f, inner_write(h.wbuf))

\* hasattr(self.transport, "flush") is false of a base transport.
flush_resume(f, h, v) == Ret(h, None)

\* BufferedTransport.write(data)
Buffered_write(f, h) ==
    LET h2 == [h EXCEPT !.wbuf = h.wbuf \o f.data] IN
    IF Len(h2.wbuf) > WBufSize
    THEN Call(h2, f, [fn |-> "Buffered.flush"])
    ELSE Ret(h2, None)

Buffered_write_resume(f, h, v) == Ret(h, None)

\* BufferedTransport.close()
Buffered_close(f, h) ==
    IF cfg.writable
    THEN Call(h, [f EXCEPT !.pc = "flush"], [fn |-> "Buffered.flush"])
    ELSE Call(h, [f EXCEPT !.pc = "close"], inner_close)

Buffered_close_resume(f, h, v) ==
    IF f.pc = "flush"
    THEN Call(h, [f EXCEPT !.pc = "close"], inner_close)
    ELSE Ret(h, None)

(***************************************************************************)
(*                           BoundTransport                                *)
(***************************************************************************)

\* BoundTransport.read(count)
Bound_read(f, h) ==
    IF cfg.read_unbounded
    THEN Call(h, [f EXCEPT !.pc = "unbounded"], inner_read(f.count))
    ELSE IF h.rlength <= 0
    THEN Ret(h, <<>>)
    ELSE Call(h, [f EXCEPT !.pc = "bounded"],
              inner_read(Min({f.count, h.rlength})))

Bound_read_resume(f, h, data) ==
    IF f.pc = "unbounded"
    THEN Ret(h, data)
    ELSE Ret([h EXCEPT !.rlength = h.rlength - Len(data)], data)

\* The loop of skip: "while count > 0"
skip_loop(f, h) ==
    IF f.count > 0
    THEN Call(h, f, [fn |-> "Bound.read", count |-> f.count, pc |-> "start"])
    ELSE Ret(h, f.actually_read)

\* A variant of skip that takes the default count, -1, for nothing to skip.
skip_ignores_default(f, h) ==
    IF f.count < 0 THEN Ret(h, f.actually_read) ELSE skip_loop(f, h)

\* BoundTransport.skip(count).  With no read quota (None) the count of
\* skip(-1) is None, which Python 2 orders below every number.
skip(f, h) ==
    IF f.count < 0
    THEN IF cfg.read_unbounded
         THEN Ret(h, f.actually_read)
         ELSE skip_loop([f EXCEPT !.count = h.rlength], h)
    ELSE skip_loop(f, h)

skip_resume(f, h, data) ==
    IF data = <<>>
    THEN Ret(h, f.actually_read)
    ELSE skip_loop([f EXCEPT !.actually_read = f.actually_read + Len(data),
                             !.count = f.count - Len(data)], h)

\* if self.close_underlying: yield self.transport.close()
Bound_close_underlying(f, h) ==
    IF cfg.close_underlying
    THEN Call(h, [f EXCEPT !.pc = "close"], inner_close)
    ELSE Ret(h, None)

\* BoundTransport.close()
Bound_close(f, h) ==
    IF cfg.skip_on_close
    THEN Call(h, [f EXCEPT !.pc = "skip"],
              [fn |-> "Bound.skip", count |-> -1, actually_read |-> 0])
    ELSE Bound_close_underlying(f, h)

Bound_close_resume(f, h, v) ==
    IF f.pc = "skip" THEN Bound_close_underlying(f, h) ELSE Ret(h, None)

\* BoundTransport.write(data)
Bound_write(f, h) ==
    IF cfg.write_unbounded
    THEN Call(h, [f EXCEPT !.pc = "unbounded"], inner_write(f.data))
    ELSE IF Len(f.data) > h.wlength
    THEN Raise(h, "EOFError", <<>>)
    ELSE Call(h, [f EXCEPT !.pc = "bounded"], inner_write(f.data))

Bound_write_resume(f, h, v) ==
    IF f.pc = "unbounded"
    THEN Ret(h, None)
    ELSE Ret([h EXCEPT !.wlength = h.wlength - Len(f.data)], None)

(***************************************************************************)
(*                           PacketTransport                               *)
(***************************************************************************)

\* HEADER = Struct("!L"): HEADER.size
HeaderSize == 4

\* A variant of pack with the least significant byte first ("<L").
pack_little_endian(n) ==
    <<n % 256, (n \div 256) % 256, (n \div 65536) % 256, (n \div 16777216) % 256>>

\* HEADER.pack(n): n as four bytes, the most significant first.
pack(n) ==
    <<(n \div 16777216) % 256, (n \div 65536) % 256, (n \div 256) % 256, n % 256>>

\* HEADER.unpack(header)
unpack(header) ==
    header[1] * 16777216 + header[2] * 65536 + header[3] * 256 + header[4]

\* PacketTransport.recv()
recv(f, h) ==
    Call(h, [f EXCEPT !.pc = "header"],
         [fn |-> "Buffered.read_exactly", count |-> HeaderSize,
          raise_on_eof |-> TRUE, buffer |-> <<>>])

\* A variant of recv_resume that checks the length once the body is read.
recv_resume_checks_late(f, h, v) ==
    IF f.pc = "header"
    THEN Call(h, [f EXCEPT !.pc = "body"],
              [fn |-> "Buffered.read_exactly", count |-> unpack(v),
               raise_on_eof |-> TRUE, buffer |-> <<>>])
    ELSE IF cfg.max_length > 0 /\ Len(v) > cfg.max_length
    THEN Raise(h, "PacketTooLong", <<>>)
    ELSE Ret(h, v)

recv_resume(f, h, v) ==
    IF f.pc = "header"
    THEN LET length == unpack(v) IN
         IF cfg.max_length > 0 /\ length > cfg.max_length
         THEN Raise(h, "PacketTooLong", <<>>)
         ELSE Call(h, [f EXCEPT !.pc = "body"],
                   [fn |-> "Buffered.read_exactly", count |-> length,
                    raise_on_eof |-> TRUE, buffer |-> <<>>])
    ELSE Ret(h, v)

\* PacketTransport.send(data, flush)
send(f, h) ==
    Call(h, [f EXCEPT !.pc = "header"],
         [fn |-> "Buffered.write", data |-> pack(Len(f.data))])

send_resume(f, h, v) ==
    IF f.pc = "header"
    THEN Call(h, [f EXCEPT !.pc = "data"],
              [fn |-> "Buffered.write", data |-> f.data])
    ELSE IF f.pc = "data" /\ f.flush
    THEN Call(h, [f EXCEPT !.pc = "flush"], [fn |-> "Buffered.flush"])
    ELSE Ret(h, None)

(***************************************************************************)
(*                 Running a coroutine up to its next yield                *)
(***************************************************************************)

(***************************************************************************)
(*                     CodecTransport, for UTF-8                           *)
(*                                                                         *)
(* A text is a sequence of code points.                                    *)
(***************************************************************************)

\* The UTF-8 bytes of the code point c < 65536.
EncodeChar(c) ==
    IF c < 128 THEN <<c>>
    ELSE IF c < 2048 THEN <<192 + (c \div 64), 128 + (c % 64)>>
    ELSE <<224 + (c \div 4096), 128 + ((c \div 64) % 64), 128 + (c % 64)>>

\* encoder.encode(text)
RECURSIVE encode(_)
encode(text) ==
    IF text = <<>> THEN <<>>
    ELSE EncodeChar(Head(text)) \o encode(Tail(text))

\* The length of the sequence that the lead byte b starts.
SeqLen(b) == IF b < 128 THEN 1 ELSE IF b < 224 THEN 2 ELSE 3

\* The code point of a whole sequence bs.
DecodeChar(bs) ==
    CASE Len(bs) = 1 -> bs[1]
      [] Len(bs) = 2 -> (bs[1] - 192) * 64 + (bs[2] - 128)
      [] Len(bs) = 3 -> (bs[1] - 224) * 4096 + (bs[2] - 128) * 64 + (bs[3] - 128)

\* The incremental decoder on the bytes it has (those it held back and
\* those it is given): the text of the whole sequences, and for a sequence
\* cut short at the end, the bytes held back, or an error when final
\* (errors = "strict").
RECURSIVE DecodeFrom(_, _)
DecodeFrom(bytes, final) ==
    IF bytes = <<>>
    THEN [text |-> <<>>, held |-> <<>>, err |-> None]
    ELSE LET n == SeqLen(bytes[1]) IN
         IF Len(bytes) < n
         THEN IF final
              THEN [text |-> <<>>, held |-> <<>>, err |-> "UnicodeDecodeError"]
              ELSE [text |-> <<>>, held |-> bytes, err |-> None]
         ELSE LET rest == DecodeFrom(Drop(bytes, n), final) IN
              [rest EXCEPT !.text = <<DecodeChar(Take(bytes, n))>> \o rest.text]

\* rreturn(self.decoder.decode(raw, final))
decode(h, raw, final) ==
    LET d == DecodeFrom(h.decoder \o raw, final) IN
    IF d.err # None
    THEN Raise([h EXCEPT !.decoder = <<>>], d.err, <<>>)
    ELSE Ret([h EXCEPT !.decoder = d.held], d.text)

\* CodecTransport.read(count)
Codec_read(f, h) == Call(h, f, inner_read(f.count))

Codec_read_resume(f, h, raw) ==
    IF IsNone(raw)
    THEN decode(h, <<>>, TRUE)
    ELSE decode(h, raw, FALSE)

\* CodecTransport.close(): the UTF-8 encoder holds nothing back, so
\* encoder.encode("", final = True) is the encoding of the empty text.
Codec_close(f, h) ==
    LET raw == encode(<<>>) IN
    IF raw # <<>>
    THEN Call(h, [f EXCEPT !.pc = "write"], inner_write(raw))
    ELSE Call(h, [f EXCEPT !.pc = "close"], inner_close)

Codec_close_resume(f, h, v) ==
    IF f.pc = "write"
    THEN Call(h, [f EXCEPT !.pc = "close"], inner_close)
    ELSE Ret(h, None)

(***************************************************************************)
(*                       DuplexStreamTransport                             *)
(***************************************************************************)

\* DuplexStreamTransport.close()
Duplex_close(f, h) == Call(h, [f EXCEPT !.pc = "in"], inner_close)

Duplex_close_resume(f, h, v) ==
    IF f.pc = "in"
    THEN Call(h, [f EXCEPT !.pc = "out"], out_close)
    ELSE Ret(h, None)

\* PacketTransport.close(): return self.transport.close(), the close of the
\* BufferedTransport it holds.
Packet_close == [fn |-> "Buffered.close", pc |-> "start"]

\* The method of frame f, called.
Begin(f, h) ==
    CASE f.fn = "Buffered._fill_rbuf" -> _fill_rbuf(f, h)
      [] f.fn = "Buffered.read" -> Buffered_read(f, h)
      [] f.fn = "Buffered.read_exactly" -> read_exactly(f, h)
      [] f.fn = "Buffered.read_all" -> read_all(f, h)
      [] f.fn = "Buffered.read_until" -> read_until(f, h)
      [] f.fn = "Buffered.flush" -> flush(f, h)
      [] f.fn = "Buffered.write" -> Buffered_write(f, h)
      [] f.fn = "Buffered.close" -> Buffered_close(f, h)
      [] f.fn = "Bound.read" -> Bound_read(f, h)
      [] f.fn = "Bound.skip" -> skip(f, h)
      [] f.fn = "Bound.close" -> Bound_close(f, h)
      [] f.fn = "Bound.write" -> Bound_write(f, h)
      [] f.fn = "Packet.recv" -> recv(f, h)
      [] f.fn = "Packet.send" -> send(f, h)
      [] f.fn = "Codec.read" -> Codec_read(f, h)
      [] f.fn = "Codec.close" -> Codec_close(f, h)
      [] f.fn = "Duplex.close" -> Duplex_close(f, h)

\* The method of frame f, resumed with the value v of the Deferred it yielded.
Resume(f, h, v) ==
    CASE f.fn = "Buffered._fill_rbuf" -> _fill_rbuf_resume(f, h, v)
      [] f.fn = "Buffered.read" -> Buffered_read_resume(f, h, v)
      [] f.fn = "Buffered.read_exactly" -> read_exactly_resume(f, h, v)
      [] f.fn = "Buffered.read_all" -> read_all_resume(f, h, v)
      [] f.fn = "Buffered.read_until" -> read_until_resume(f, h, v)
      [] f.fn = "Buffered.flush" -> flush_resume(f, h, v)
      [] f.fn = "Buffered.write" -> Buffered_write_resume(f, h, v)
      [] f.fn = "Buffered.close" -> Buffered_close_resume(f, h, v)
      [] f.fn = "Bound.read" -> Bound_read_resume(f, h, v)
      [] f.fn = "Bound.skip" -> skip_resume(f, h, v)
      [] f.fn = "Bound.close" -> Bound_close_resume(f, h, v)
      [] f.fn = "Bound.write" -> Bound_write_resume(f, h, v)
      [] f.fn = "Packet.recv" -> recv_resume(f, h, v)
      [] f.fn = "Packet.send" -> send_resume(f, h, v)
      [] f.fn = "Codec.read" -> Codec_read_resume(f, h, v)
      [] f.fn = "Codec.close" -> Codec_close_resume(f, h, v)
      [] f.fn = "Duplex.close" -> Duplex_close_resume(f, h, v)

\* The error e of the yielded Deferred, raised at the yield of frame f: only
\* _fill_rbuf has a handler, every other method lets it through.
Throw(f, h, e, v) ==
    IF f.fn = "Buffered._fill_rbuf"
    THEN _fill_rbuf_throw(f, h, e, v)
    ELSE Raise(h, e, v)

\* The step driver.  sig is what is delivered to the frame on top of the
\* stack: "begin" (it was just called), "ret" (the Deferred it yielded
\* resolved with sig.v) or "raise" (it failed with sig.e).  The run ends
\* with a call on the inner transport on top of the stack (out is
\* "pending"), or with the stack empty and out the outcome of the outermost
\* method.
RECURSIVE Run(_, _, _)
Run(stack, h, sig) ==
    IF stack = <<>>
    THEN [stack |-> <<>>, h |-> h, out |-> sig]
    ELSE LET top == stack[Len(stack)]
             rest == SubSeq(stack, 1, Len(stack) - 1)
         IN  IF sig.k = "begin" /\ IsInner(top)
             THEN [stack |-> stack, h |-> h, out |-> [k |-> "pending"]]
             ELSE LET eff == CASE sig.k = "begin" -> Begin(top, h)
                               [] sig.k = "ret" -> Resume(top, h, sig.v)
                               [] sig.k = "raise" -> Throw(top, h, sig.e, sig.v)
                  IN  CASE eff.k = "call" ->
                             Run(Append(Append(rest, eff.self), eff.callee),
                                 eff.h, [k |-> "begin"])
                        [] eff.k = "ret" ->
                             Run(rest, eff.h,
                                 [k |-> "ret", e |-> None, v |-> eff.v])
                        [] eff.k = "raise" ->
                             Run(rest, eff.h,
                                 [k |-> "raise", e |-> eff.e, v |-> eff.v])


(***************************************************************************)
(*        The actions: a call of a method, and the inner transport         *)
(***************************************************************************)

\* The adapter's fields, as the coroutines take them.
Heap ==
    [rbuf |-> rbuf, wbuf |-> wbuf, rlength |-> rlength, wlength |-> wlength,
     decoder |-> decoder]

\* The bytes a reader of the adapter has still to get.
Unread == rbuf \o inner_in

\* How far the readers of the adapter are in the inner transport's bytes.
Position == Len(stream) - Len(Unread)

Top(t) == stacks[t][Len(stacks[t])]

Below(t) == SubSeq(stacks[t], 1, Len(stacks[t]) - 1)

Pending(t, fn) == stacks[t] # <<>> /\ Top(t).fn = fn

Idle(t) == stacks[t] = <<>>

\* The tasks of S that may call a method now: those not inside a call.
Callers(S) == {t \in S : Idle(t)}

ReadCalls == {"Buffered.read", "Buffered.read_exactly", "Buffered.read_all"}

\* Task t's coroutine has run to r (a result of Run): the adapter's fields
\* and the task's stack are r's, a call it left pending on the inner
\* transport's write side joins the queue ops, and the histories take the
\* outcome of the outermost call c when r ends it.
Advance(t, c, ops, r) ==
    /\ stacks' = [stacks EXCEPT ![t] = r.stack]
    /\ rbuf' = r.h.rbuf
    /\ wbuf' = r.h.wbuf
    /\ rlength' = r.h.rlength
    /\ wlength' = r.h.wlength
    /\ decoder' = r.h.decoder
    /\ task' = [task EXCEPT ![t] = [c EXCEPT !.out = r.out]]
    /\ inner_ops' =
         IF r.stack # <<>> /\ r.stack[Len(r.stack)].fn \in {"inner.write", "inner.close"}
         THEN Append(ops, t)
         ELSE ops
    /\ returned' =
         IF \/ /\ r.out.k = "ret"
               /\ c.frame.fn \in ReadCalls \cup {"Buffered.read_until", "Bound.read",
                                               "Codec.read"}
            \/ /\ r.out.k = "raise" /\ r.out.e = "EOFError"
               /\ c.frame.fn = "Buffered.read_exactly"
         THEN returned \o r.out.v
         ELSE returned
    /\ received' =
         IF c.frame.fn = "Packet.recv" /\ r.out.k \in {"ret", "raise"}
         THEN Append(received, r.out)
         ELSE received

\* An idle task calls the method of frame f.
CallMethod(t, f) ==
    /\ Idle(t)
    /\ ncalls < MaxCalls
    /\ ncalls' = ncalls + 1
    /\ Advance(t, [frame |-> f, h0 |-> Heap, before |-> Unread,
                   pos0 |-> Position, out0 |-> inner_out,
                   out |-> [k |-> "begin"]],
               inner_ops, Run(<<f>>, Heap, [k |-> "begin"]))
    /\ only_reads' = (only_reads /\ f.fn \in ReadCalls)
    /\ written' = IF f.fn = "Buffered.write" THEN written \o f.data ELSE written
    /\ sent' = IF f.fn = "Packet.send" THEN Append(sent, f.data) ELSE sent
    /\ UNCHANGED <<cfg, out_closed, inner_in, inner_eof, inner_out, inner_closed, stream>>
    /\ UNCHANGED <<reactorVars, loopVars>>

\* What a read(count) of the inner transport may resolve with: at least one
\* and at most count bytes of those it has (any number of them for count -1),
\* and nothing at EOF or for count 0.  With nothing to deliver before EOF
\* the read stays pending.
InnerReadResults(count) ==
    IF count = 0 THEN {<<>>}
    ELSE IF inner_in = <<>> THEN (IF inner_eof THEN {<<>>} ELSE {})
    ELSE {Take(inner_in, n) :
            n \in 1 .. (IF count < 0 THEN Len(inner_in)
                        ELSE Min({count, Len(inner_in)}))}

\* The read pending on the inner transport resolves.
InnerRead(t) ==
    /\ Pending(t, "inner.read")
    /\ ~inner_closed
    /\ \E data \in InnerReadResults(Top(t).count) :
         /\ inner_in' = Drop(inner_in, Len(data))
         /\ Advance(t, task[t], inner_ops,
                    Run(Below(t), Heap, [k |-> "ret", e |-> None, v |-> data]))
    /\ UNCHANGED <<cfg, out_closed, inner_eof, inner_out, inner_closed, stream,
                   only_reads, written, sent, ncalls>>
    /\ UNCHANGED <<reactorVars, loopVars>>

\* A read of a closed inner transport fails.
InnerReadClosed(t) ==
    /\ Pending(t, "inner.read")
    /\ inner_closed
    /\ Advance(t, task[t], inner_ops,
               Run(Below(t), Heap,
                   [k |-> "raise", e |-> "TransportClosed", v |-> <<>>]))
    /\ UNCHANGED <<cfg, out_closed, inner_in, inner_eof, inner_out, inner_closed, stream,
                   only_reads, written, sent, ncalls>>
    /\ UNCHANGED <<reactorVars, loopVars>>

\* The oldest write pending on the inner transport resolves: all its bytes
\* have been handed over.
InnerWrite(t) ==
    /\ Pending(t, "inner.write")
    /\ inner_ops # <<>> /\ Head(inner_ops) = t
    /\ ~inner_closed
    /\ inner_out' = inner_out \o Top(t).data
    /\ Advance(t, task[t], Tail(inner_ops),
               Run(Below(t), Heap, [k |-> "ret", e |-> None, v |-> None]))
    /\ UNCHANGED <<cfg, out_closed, inner_in, inner_eof, inner_closed, stream,
                   only_reads, written, sent, ncalls>>
    /\ UNCHANGED <<reactorVars, loopVars>>

\* The same, of an inner transport whose other end is the inner transport
\* of the reading task: the bytes written are there to be read.
PipeWrite(t) ==
    /\ Pending(t, "inner.write")
    /\ inner_ops # <<>> /\ Head(inner_ops) = t
    /\ ~inner_closed
    /\ inner_out' = inner_out \o Top(t).data
    /\ inner_in' = inner_in \o Top(t).data
    /\ stream' = stream \o Top(t).data
    /\ Advance(t, task[t], Tail(inner_ops),
               Run(Below(t), Heap, [k |-> "ret", e |-> None, v |-> None]))
    /\ UNCHANGED <<cfg, out_closed, inner_eof, inner_closed, only_reads, written, sent,
                   ncalls>>
    /\ UNCHANGED <<reactorVars, loopVars>>

\* The oldest write pending on the inner transport fails: with
\* TransportClosed once the transport is closed, with an error of the
\* operating system before.
InnerWriteFails(t) ==
    /\ Pending(t, "inner.write")
    /\ inner_ops # <<>> /\ Head(inner_ops) = t
    /\ Advance(t, task[t], Tail(inner_ops),
               Run(Below(t), Heap,
                   [k |-> "raise",
                    e |-> IF inner_closed THEN "TransportClosed" ELSE "IOError",
                    v |-> <<>>]))
    /\ UNCHANGED <<cfg, out_closed, inner_in, inner_eof, inner_out, inner_closed, stream,
                   only_reads, written, sent, ncalls>>
    /\ UNCHANGED <<reactorVars, loopVars>>

\* The oldest write pending on the inner transport fails because the
\* transport is closed.
InnerWriteClosed(t) ==
    /\ Pending(t, "inner.write")
    /\ inner_ops # <<>> /\ Head(inner_ops) = t
    /\ inner_closed
    /\ Advance(t, task[t], Tail(inner_ops),
               Run(Below(t), Heap,
                   [k |-> "raise", e |-> "TransportClosed", v |-> <<>>]))
    /\ UNCHANGED <<cfg, out_closed, inner_in, inner_eof, inner_out,
                   inner_closed, stream, only_reads, written, sent, ncalls>>
    /\ UNCHANGED <<reactorVars, loopVars>>

\* The close pending on the inner transport fails with an error of the
\* operating system.
InnerCloseFails(t) ==
    /\ Pending(t, "inner.close")
    /\ inner_ops # <<>> /\ Head(inner_ops) = t
    /\ ~inner_closed
    /\ Advance(t, task[t], Tail(inner_ops),
               Run(Below(t), Heap, [k |-> "raise", e |-> "IOError", v |-> <<>>]))
    /\ UNCHANGED <<cfg, out_closed, inner_in, inner_eof, inner_out,
                   inner_closed, stream, only_reads, written, sent, ncalls>>
    /\ UNCHANGED <<reactorVars, loopVars>>

\* The close pending on the duplex transport's output side resolves.
OutClose(t) ==
    /\ Pending(t, "out.close")
    /\ out_closed' = TRUE
    /\ Advance(t, task[t], inner_ops,
               Run(Below(t), Heap, [k |-> "ret", e |-> None, v |-> None]))
    /\ UNCHANGED <<cfg, inner_in, inner_eof, inner_out, inner_closed, stream,
                   only_reads, written, sent, ncalls>>
    /\ UNCHANGED <<reactorVars, loopVars>>

\* The close pending on the inner transport resolves; close is idempotent.
InnerClose(t) ==
    /\ Pending(t, "inner.close")
    /\ inner_ops # <<>> /\ Head(inner_ops) = t
    /\ inner_closed' = TRUE
    /\ Advance(t, task[t], Tail(inner_ops),
               Run(Below(t), Heap, [k |-> "ret", e |-> None, v |-> None]))
    /\ UNCHANGED <<cfg, out_closed, inner_in, inner_eof, inner_out, stream,
                   only_reads, written, sent, ncalls>>
    /\ UNCHANGED <<reactorVars, loopVars>>

(***************************************************************************)
(*      BufferedTransport's reads over an inner transport that holds       *)
(*      a stream and then is at EOF                                        *)
(***************************************************************************)

\* The streams are <<1>>, <<1, 2>>, ...: read, read_exactly and read_all never
\* look at a byte, and a stream of bytes that all differ shows every byte
\* lost, repeated or out of place.
MaxLen == 8

MaxCount == 6

ReadInit ==
    /\ ReactorInit
    /\ \E n \in 0 .. MaxLen :
         AdapterInit(DefaultCfg, [i \in 1 .. n |-> i], TRUE)

ReadNext ==
    \/ \E t \in Callers({"a"}) : \E count \in -1 .. MaxCount :
         CallMethod(t, [fn |-> "Buffered.read", count |-> count, pc |-> "start"])
    \/ \E t \in Callers({"a"}) :
         \E count \in 0 .. MaxCount, raise_on_eof \in BOOLEAN :
           CallMethod(t, [fn |-> "Buffered.read_exactly", count |-> count,
                          raise_on_eof |-> raise_on_eof, buffer |-> <<>>])
    \/ \E t \in Callers({"a"}) :
         CallMethod(t, [fn |-> "Buffered.read_all", chunk |-> ChunkSize,
                        chunks |-> <<>>])
    \/ InnerRead("a")

SpecRead == ReadInit /\ [][ReadNext]_vars

\* A call of method fn by task "a" has ended (returned or raised).
Ended(fn) ==
    /\ task["a"].out.k \in {"ret", "raise"}
    /\ task["a"].frame.fn = fn

\* C4: read_exactly(n) on a stream with at least n unread bytes returns
\* exactly the first n of them and leaves the stream positioned right after
\* them; with fewer than n bytes before EOF it raises EOFError carrying all
\* the bytes that were left if raise_on_eof, and returns them otherwise.
C4_ReadExactly ==
    Ended("Buffered.read_exactly") =>
        LET c == task["a"]
            n == c.frame.count
        IN  IF n <= Len(c.before)
            THEN /\ c.out.k = "ret"
                 /\ c.out.v = Take(c.before, n)
                 /\ Unread = Drop(c.before, n)
            ELSE /\ c.out.v = c.before
                 /\ Unread = <<>>
                 /\ IF c.frame.raise_on_eof
                    THEN c.out.k = "raise" /\ c.out.e = "EOFError"
                    ELSE c.out.k = "ret"

\* read_exactly has returned more bytes than the read buffer holds, from the
\* middle of a stream: it took several reads of the inner transport.
C4_Witness ==
    /\ Ended("Buffered.read_exactly")
    /\ task["a"].out.k = "ret"
    /\ Len(task["a"].out.v) > RBufSize
    /\ task["a"].pos0 > 0
    /\ Unread # <<>>

\* C5: read_all() returns every byte not yet returned and leaves the read
\* buffer empty and the inner transport drained; whenever no call is in
\* progress after calls of read, read_exactly and read_all only, the bytes
\* returned so far followed by the bytes still unread are the stream.
C5_ReadAll ==
    /\ Ended("Buffered.read_all") =>
           /\ task["a"].out.k = "ret"
           /\ task["a"].out.v = task["a"].before
           /\ rbuf = <<>> /\ inner_in = <<>>
    /\ (Idle("a") /\ only_reads) => returned \o Unread = stream
    /\ (Idle("a") /\ only_reads /\ ncalls > 0
          /\ task["a"].frame.fn = "Buffered.read_all") => returned = stream

\* read_all has returned the rest of a stream of which earlier calls had
\* returned a part, with bytes left in the read buffer when it was called.
C5_Witness ==
    /\ Ended("Buffered.read_all")
    /\ ncalls = MaxCalls
    /\ task["a"].h0.rbuf # <<>>
    /\ Len(task["a"].out.v) > ChunkSize
    /\ returned = stream


(***************************************************************************)
(*      BufferedTransport.read_until and read_line over text               *)
(***************************************************************************)

\* The longest text, over the alphabet "a", "\r", "\n".
MaxText == 4

RECURSIVE Strings(_, _)
Strings(alphabet, n) ==
    IF n = 0 THEN {<<>>}
    ELSE LET shorter == Strings(alphabet, n - 1)
         IN  shorter \cup {Append(w, x) : w \in shorter, x \in alphabet}

\* "abXXYYcd" and the needle "XXYY"
AbXXYYcd == <<97, 98, 88, 88, 89, 89, 99, 100>>

XXYY == <<88, 88, 89, 89>>

UntilInit ==
    /\ ReactorInit
    /\ \E s \in Strings({97, CR, LF}, MaxText) \cup {AbXXYYcd} :
         AdapterInit(DefaultCfg, s, TRUE)

UntilNext ==
    \/ \E t \in Callers({"a"}) :
         CallMethod(t, [fn |-> "Buffered.read", count |-> 1, pc |-> "start"])
    \/ \E t \in Callers({"a"}) :
         \E needle \in {<<CR, LF>>, XXYY}, raise_on_eof, include_pattern \in BOOLEAN :
           CallMethod(t, [fn |-> "Buffered.read_until", patterns |-> <<needle>>,
                          raise_on_eof |-> raise_on_eof,
                          include_pattern |-> include_pattern,
                          eof |-> FALSE, last_index |-> 0])
    \/ \E t \in Callers({"a"}) : \E include_newline \in BOOLEAN :
         CallMethod(t, read_line(include_newline))
    \/ InnerRead("a")

SpecUntil == UntilInit /\ [][UntilNext]_vars

\* The patterns of the read_until call c that occur in s.
Occurring(c, s) ==
    {i \in 1 .. Len(c.frame.patterns) : Find(s, c.frame.patterns[i], 0) >= 0}

\* The smallest index at which a pattern of the call c occurs in s.
FirstIndex(c, s) ==
    Min({Find(s, c.frame.patterns[i], 0) : i \in Occurring(c, s)})

\* The length of the longest pattern of the call c that occurs in s at
\* FirstIndex.
NeedleLen(c, s) ==
    Max({Len(c.frame.patterns[i]) :
           i \in {j \in Occurring(c, s) :
                    Find(s, c.frame.patterns[j], 0) = FirstIndex(c, s)}})

\* C2: read_until with a needle in the buffered data cuts at the smallest
\* index at which any needle occurs, and there at the longest needle: it
\* returns the bytes before it (and the needle, with include_pattern) and
\* leaves the bytes after the needle in the buffer.
C2_EarliestNeedle ==
    (Ended("Buffered.read_until") /\ Occurring(task["a"], task["a"].h0.rbuf) # {}) =>
        LET c == task["a"]
            ind == FirstIndex(c, c.h0.rbuf)
            len == NeedleLen(c, c.h0.rbuf)
        IN  /\ c.out.k = "ret"
            /\ c.out.v = Take(c.h0.rbuf, IF c.frame.include_pattern
                                       THEN ind + len ELSE ind)
            /\ rbuf = Drop(c.h0.rbuf, ind + len)

\* C3: read_until(needle, include_pattern = false) called with an empty read
\* buffer on a stream that holds the needle returns the bytes before the
\* first occurrence of the needle and leaves the bytes after it to be read
\* next, however the inner transport cuts the stream into reads.
C3_AcrossChunks ==
    (/\ Ended("Buffered.read_until")
     /\ Len(task["a"].frame.patterns) = 1
     /\ ~task["a"].frame.include_pattern
     /\ task["a"].h0.rbuf = <<>>
     /\ Occurring(task["a"], task["a"].before) # {}) =>
        LET c == task["a"]
            ind == FirstIndex(c, c.before)
        IN  /\ c.out.k = "ret"
            /\ c.out.v = Take(c.before, ind)
            /\ Unread = Drop(c.before, ind + Len(c.frame.patterns[1]))


(***************************************************************************)
(*      BufferedTransport's writes, by two tasks over one transport        *)
(***************************************************************************)

\* The most bytes in one write().
MaxWrite == 3

\* The data of a write() of n bytes: the bytes are numbered on, so that the
\* bytes ever written all differ.
NextData(n) == [i \in 1 .. n |-> Len(written) + i]

WriteInit ==
    /\ ReactorInit
    /\ AdapterInit(DefaultCfg, <<>>, TRUE)

WriteNext ==
    \/ \E t \in Callers(Tasks) : \E n \in 0 .. MaxWrite :
         CallMethod(t, [fn |-> "Buffered.write", data |-> NextData(n)])
    \/ \E t \in Callers(Tasks) : CallMethod(t, [fn |-> "Buffered.flush"])
    \/ \E t \in Callers(Tasks) :
         CallMethod(t, [fn |-> "Buffered.close", pc |-> "start"])
    \/ \E t \in Tasks : InnerWrite(t)
    \/ \E t \in Tasks : InnerWriteFails(t)
    \/ \E t \in Tasks : InnerClose(t)

SpecWrite == WriteInit /\ [][WriteNext]_vars

\* The data of the writes pending on the inner transport, oldest first.
RECURSIVE InFlightOf(_)
InFlightOf(ops) ==
    IF ops = <<>> THEN <<>>
    ELSE (IF Top(Head(ops)).fn = "inner.write" THEN Top(Head(ops)).data ELSE <<>>)
         \o InFlightOf(Tail(ops))

InFlight == InFlightOf(inner_ops)

\* C6: no written byte is ever discarded: the bytes the inner transport has
\* accepted, then those of the writes pending on it, then the write buffer
\* are all the data passed to write(), in call order -- also after an inner
\* write of flush() has failed; and when close() has returned, every byte
\* that was in the write buffer when it was called is with the inner
\* transport.
C6_NoByteDiscarded ==
    /\ inner_out \o InFlight \o wbuf = written
    /\ \A t \in Tasks :
         (task[t].out.k = "ret" /\ task[t].frame.fn = "Buffered.close") =>
             \A i \in 1 .. Len(task[t].h0.wbuf) :
                 \E j \in 1 .. Len(inner_out) : inner_out[j] = task[t].h0.wbuf[i]

(***************************************************************************)
(*      PacketTransport: task "a" sends on one end of a pipe, task "b"     *)
(*      receives on the other                                              *)
(***************************************************************************)

\* "hello"
Hello == <<104, 101, 108, 108, 111>>

Payloads == {<<>>, Hello}

\* The receiving end's max_length: no limit, and limits that "hello"
\* exceeds and meets.
MaxLengths == {0, 4, 5}

PacketInit ==
    /\ ReactorInit
    /\ \E m \in MaxLengths :
         AdapterInit([DefaultCfg EXCEPT !.max_length = m], <<>>, FALSE)

PacketNext ==
    \/ \E t \in Callers({"a"}) : \E data \in Payloads, fl \in BOOLEAN :
         CallMethod(t, [fn |-> "Packet.send", data |-> data, flush |-> fl,
                        pc |-> "start"])
    \/ \E t \in Callers({"a"}) : CallMethod(t, [fn |-> "Buffered.flush"])
    \/ \E t \in Callers({"b"}) :
         CallMethod(t, [fn |-> "Packet.recv", pc |-> "start"])
    \/ PipeWrite("a")
    \/ InnerRead("b")

SpecPacket == PacketInit /\ [][PacketNext]_vars

\* The wire bytes of the payloads ps: each behind its length.
RECURSIVE Frames(_)
Frames(ps) ==
    IF ps = <<>> THEN <<>>
    ELSE LET p == Head(ps)
         IN  <<0, 0, 0, Len(p)>> \o p \o Frames(Tail(ps))

\* The receiver's limit lets a payload through.
WithinLimit(p) == cfg.max_length <= 0 \/ Len(p) <= cfg.max_length

\* C7: the bytes sent are, for each payload in order, its length as four
\* bytes, the most significant first, and then the payload; and however the
\* receiver's inner transport cuts them into reads, the i-th recv() returns
\* the i-th payload sent, as long as no payload up to it exceeds the
\* receiver's max_length.
C7_RoundTrip ==
    /\ LET wire == inner_out \o InFlight \o wbuf
       IN  /\ wire = Take(Frames(sent), Len(wire))
           /\ Idle("a") => wire = Frames(sent)
    /\ \A i \in 1 .. Len(received) :
         (\A j \in 1 .. i : j <= Len(sent) /\ WithinLimit(sent[j])) =>
             /\ i <= Len(sent)
             /\ received[i].k = "ret"
             /\ received[i].v = sent[i]

\* Two packets, "hello" and the empty one, have been sent and received under
\* a limit, and the receiver has read all there was.
C7_Witness ==
    /\ cfg.max_length > 0
    /\ Len(received) = 2
    /\ sent = <<Hello, <<>>>>
    /\ received[1].k = "ret" /\ received[1].v = Hello
    /\ received[2].k = "ret" /\ received[2].v = <<>>
    /\ inner_out = <<0, 0, 0, 5, 104, 101, 108, 108, 111, 0, 0, 0, 0>>
    /\ Unread = <<>>

\* The header of the frame that the recv() call c of task "b" met.
HeaderOf(c) == SubSeq(stream, c.pos0 + 1, c.pos0 + HeaderSize)

\* C8: recv() with max_length = M > 0 raises PacketTooLong for a frame whose
\* header declares more than M bytes, and has then taken the four bytes of
\* the header and no more from the buffered stream; it raises PacketTooLong
\* for no other frame, and for none at all with max_length <= 0.
C8_PacketTooLong ==
    (task["b"].out.k \in {"ret", "raise"} /\ task["b"].frame.fn = "Packet.recv") =>
        LET c == task["b"]
            toolong == cfg.max_length > 0 /\ unpack(HeaderOf(c)) > cfg.max_length
        IN  /\ toolong => /\ c.out.k = "raise"
                          /\ c.out.e = "PacketTooLong"
                          /\ Position = c.pos0 + HeaderSize
            /\ (c.out.k = "raise" /\ c.out.e = "PacketTooLong") => toolong

\* recv() has raised PacketTooLong for "hello" under max_length 4, with the
\* first byte of the payload already in the read buffer.
C8_Witness ==
    /\ task["b"].out.k = "raise"
    /\ task["b"].out.e = "PacketTooLong"
    /\ cfg.max_length = 4
    /\ HeaderOf(task["b"]) = <<0, 0, 0, 5>>
    /\ rbuf = <<104>>
    /\ inner_in = <<101, 108, 108, 111>>


(***************************************************************************)
(*      BoundTransport over an inner transport that holds a stream         *)
(***************************************************************************)

\* The longest stream of the inner transport; its bytes are numbered, as
\* BoundTransport never looks at one.
MaxBoundLen == 4

\* The largest read_length and write_length.
MaxQuota == 3

BoundInit ==
    /\ ReactorInit
    /\ \E n \in 0 .. MaxBoundLen, rl, wl \in 0 .. MaxQuota, sk, cu \in BOOLEAN :
         AdapterInit([DefaultCfg EXCEPT !.read_unbounded = FALSE,
                                        !.write_unbounded = FALSE,
                                        !.read_length = rl,
                                        !.write_length = wl,
                                        !.skip_on_close = sk,
                                        !.close_underlying = cu],
                     [i \in 1 .. n |-> i], TRUE)

BoundNext ==
    \/ \E t \in Callers({"a"}) : \E count \in -1 .. MaxQuota + 1 :
         CallMethod(t, [fn |-> "Bound.read", count |-> count, pc |-> "start"])
    \/ \E t \in Callers({"a"}) : \E count \in -1 .. MaxQuota + 1 :
         CallMethod(t, [fn |-> "Bound.skip", count |-> count,
                        actually_read |-> 0])
    \/ \E t \in Callers({"a"}) : \E n \in 0 .. MaxWrite :
         CallMethod(t, [fn |-> "Bound.write", data |-> [i \in 1 .. n |-> i],
                        pc |-> "start"])
    \/ \E t \in Callers({"a"}) :
         CallMethod(t, [fn |-> "Bound.close", pc |-> "start"])
    \/ InnerRead("a")
    \/ InnerReadClosed("a")
    \/ InnerWrite("a")
    \/ InnerWriteFails("a")
    \/ InnerClose("a")

SpecBound == BoundInit /\ [][BoundNext]_vars

\* The read side alone: no write quota and no writes.
SkipInit ==
    /\ ReactorInit
    /\ \E n \in 0 .. MaxBoundLen, rl \in 0 .. MaxQuota, sk, cu \in BOOLEAN :
         AdapterInit([DefaultCfg EXCEPT !.read_unbounded = FALSE,
                                        !.write_unbounded = FALSE,
                                        !.read_length = rl,
                                        !.skip_on_close = sk,
                                        !.close_underlying = cu],
                     [i \in 1 .. n |-> i], TRUE)

SkipNext ==
    \/ \E t \in Callers({"a"}) : \E count \in -1 .. MaxQuota + 1 :
         CallMethod(t, [fn |-> "Bound.read", count |-> count, pc |-> "start"])
    \/ \E t \in Callers({"a"}) : \E count \in -1 .. MaxQuota + 1 :
         CallMethod(t, [fn |-> "Bound.skip", count |-> count,
                        actually_read |-> 0])
    \/ \E t \in Callers({"a"}) :
         CallMethod(t, [fn |-> "Bound.close", pc |-> "start"])
    \/ InnerRead("a")
    \/ InnerReadClosed("a")
    \/ InnerClose("a")

SpecSkip == SkipInit /\ [][SkipNext]_vars

\* C9: with finite quotas the readers never get more than read_length bytes
\* in all, the inner transport's write never gets more than write_length
\* bytes, and neither remaining count goes below zero; a write of more bytes
\* than the remaining write quota raises EOFError and writes nothing.
C9_QuotasHold ==
    /\ Len(returned) <= cfg.read_length
    /\ Len(inner_out) <= cfg.write_length
    /\ rlength >= 0
    /\ wlength >= 0
    /\ (/\ Ended("Bound.write")
        /\ Len(task["a"].frame.data) > task["a"].h0.wlength) =>
           /\ task["a"].out.k = "raise" /\ task["a"].out.e = "EOFError"
           /\ inner_out = task["a"].out0

\* C10: close() of a bound transport with skip_on_close, over an inner
\* transport that holds at least read_length bytes, of which the reads (and
\* skips) before it took no more than read_length, leaves the inner
\* transport exactly read_length bytes on from where the bound transport
\* started; the inner transport is closed if and only if close_underlying,
\* and its close is only asked for once the skip is over.
C10_SkipOnClose ==
    /\ (/\ ncalls > 0 /\ task["a"].frame.fn = "Bound.close"
        /\ cfg.skip_on_close
        /\ Len(stream) >= cfg.read_length
        /\ task["a"].pos0 <= cfg.read_length) =>
           /\ task["a"].out.k # "raise"
           /\ (task["a"].out.k = "ret" \/ Pending("a", "inner.close")) =>
                  /\ Position = cfg.read_length
                  /\ rlength = 0
           /\ task["a"].out.k = "ret" => inner_closed = cfg.close_underlying
    /\ ~cfg.close_underlying => ~inner_closed

\* close() has skipped two or more bytes after a read of some, and has left
\* open an inner transport that holds more.
C10_Witness ==
    /\ Ended("Bound.close")
    /\ task["a"].out.k = "ret"
    /\ cfg.skip_on_close /\ ~cfg.close_underlying
    /\ task["a"].pos0 > 0
    /\ Position >= task["a"].pos0 + 2
    /\ Position = cfg.read_length
    /\ Len(returned) = task["a"].pos0
    /\ inner_in # <<>>
    /\ ~inner_closed


(***************************************************************************)
(*                reactors/posix/subsystems/files.py                       *)
(***************************************************************************)

\* The characters of a mode string.  open() only asks whether a character
\* is in the mode, so a mode is modelled as the set of its characters.
ModeChars == {"r", "w", "a", "+", "t", "b"}

Modes == SUBSET ModeChars

\* The most Deferreds open() hands out in a run.
MaxOpens == 2

\* reactor.call(fn, *args): the callback joins the queue and is not invoked.
reactor_call(callback) == queue' = Append(queue, callback)

\* FileTransport(reactor, fileobj, mode2).properties
FileTransport(mode2) ==
    [readable |-> "r" \in mode2, writable |-> "w" \in mode2]

\* The Deferred the next open() creates, if the run may create one more.
NextDfr == {Len(dfr) + 1} \cap (1 .. MaxOpens)

\* FilesSubsystem.open(path, mode): dfr = Deferred();
\* self.reactor.call(opener); return dfr
open(d, mode) ==
    /\ dfr' = Append(dfr, [state |-> "pending", mode |-> mode,
                           trns |-> FileTransport({}), err |-> None])
    /\ reactor_call([fn |-> "opener", d |-> d, mode |-> mode])
    /\ UNCHANGED <<reactorVars, bad_fds, adapterVars>>

\* The mode handed to FileTransport.
mode2(mode) ==
    (IF "r" \in mode \/ "+" \in mode THEN {"r"} ELSE {})
        \cup (IF "a" \in mode \/ "+" \in mode THEN {"w"} ELSE {})

\* opener(), taken from the head of the callback queue; os_ok is whether
\* the builtin open(path, mode) succeeds.
opener(os_ok) ==
    /\ queue # <<>>
    /\ Head(queue).fn = "opener"
    /\ queue' = Tail(queue)
    /\ LET cb == Head(queue) IN
       dfr' = [dfr EXCEPT ![cb.d] =
                 IF os_ok
                 THEN [@ EXCEPT !.state = "set",
                                !.trns = FileTransport(mode2(cb.mode))]
                 ELSE [@ EXCEPT !.state = "thrown", !.err = "IOError"]]
    /\ UNCHANGED <<reactorVars, bad_fds, adapterVars>>

FilesInit ==
    /\ ReactorInit
    /\ AdapterInit(DefaultCfg, <<>>, TRUE)

FilesNext ==
    \/ \E d \in NextDfr : \E mode \in Modes : open(d, mode)
    \/ \E os_ok \in BOOLEAN : opener(os_ok)

SpecFiles == FilesInit /\ [][FilesNext]_vars

\* C11: the Deferred of open(path, mode) is pending with its opener in the
\* callback queue until the opener has run (open is never done inline); it
\* then holds the error when the builtin open failed, and otherwise a
\* transport that is readable iff the mode has 'r' or '+' and writable iff
\* the mode has 'a', 'w' or '+'.
C11_OpenCapabilities ==
    \A d \in 1 .. Len(dfr) :
        /\ dfr[d].state = "pending" <=>
              \E i \in 1 .. Len(queue) : queue[i].d = d
        /\ dfr[d].state = "thrown" => dfr[d].err = "IOError"
        /\ dfr[d].state = "set" =>
              /\ dfr[d].trns.readable <=>
                    ("r" \in dfr[d].mode \/ "+" \in dfr[d].mode)
              /\ dfr[d].trns.writable <=>
                    \/ "a" \in dfr[d].mode
                    \/ "w" \in dfr[d].mode
                    \/ "+" \in dfr[d].mode


(***************************************************************************)
(*               reactors/selecting.py: the poll step                      *)
(***************************************************************************)

\* The keys of a map: the fds it holds a transport for.
Keys(m) == {fd \in FDs : m[fd] # None}

\* Whether the reactor has an attribute _reads_transports, which line 35
\* reads: __init__ sets _read_transports and _write_transports and no line
\* sets _reads_transports.
has_reads_transports == FALSE

\* self.call(m[fd].<fn>, -1) for the fds of S in ascending order.
RECURSIVE Callbacks(_, _, _)
Callbacks(S, m, fn) ==
    IF S = {} THEN <<>>
    ELSE LET fd == Min(S) IN
         <<[fn |-> fn, t |-> m[fd], arg |-> -1]>>
             \o Callbacks(S \ {fd}, m, fn)

\* What select.select(rlist, wlist, [], timeout) may do: fail with EBADF
\* when a descriptor given is invalid, be interrupted by a signal (EINTR),
\* fail with another error of the operating system (EIO), or return the
\* descriptors that are ready, any of those given.
SelectOutcomes(rlist, wlist) ==
    {[err |-> e, r |-> {}, w |-> {}] :
        e \in IF (rlist \cup wlist) \cap bad_fds # {}
              THEN {"EBADF"} ELSE {"EINTR", "EIO"}}
    \cup IF (rlist \cup wlist) \cap bad_fds # {} THEN {}
         ELSE {[err |-> None, r |-> r, w |-> w] :
                 r \in SUBSET rlist, w \in SUBSET wlist}

\* The error _prune_bad_fds ends with.  Its loop takes the read map first:
\* iterating a dict gives its keys, the fd numbers, and an int has no
\* fileno (AttributeError, which the except clause does not catch); with no
\* key in the map, "transports -= bad" subtracts a set from a dict
\* (TypeError).  Either way the write map is never reached.
prune_error == IF Keys(read_transports) # {} THEN "AttributeError" ELSE "TypeError"

\* SelectingReactor._prune_bad_fds()
_prune_bad_fds ==
    /\ call' = [op |-> "_prune_bad_fds", t |-> None, err |-> prune_error]
    /\ UNCHANGED <<read_transports, write_transports, loopVars, adapterVars>>

\* SelectingReactor._handle_transports(timeout)
_handle_transports ==
    IF ~has_reads_transports
    THEN /\ call' = [op |-> "_handle_transports", t |-> None,
                     err |-> "AttributeError"]
         /\ UNCHANGED <<read_transports, write_transports, loopVars, adapterVars>>
    ELSE IF Keys(read_transports) = {} /\ Keys(write_transports) = {}
    THEN /\ call' = [op |-> "_handle_transports", t |-> None, err |-> None]
         /\ UNCHANGED <<read_transports, write_transports, loopVars, adapterVars>>
    ELSE \E o \in SelectOutcomes(Keys(read_transports), Keys(write_transports)) :
           IF o.err = "EBADF"
           THEN _prune_bad_fds
           ELSE /\ call' = [op |-> "_handle_transports", t |-> None,
                            err |-> IF o.err = "EIO" THEN "EIO" ELSE None]
                /\ queue' = queue \o Callbacks(o.r, read_transports, "on_read")
                                  \o Callbacks(o.w, write_transports, "on_write")
                /\ UNCHANGED <<read_transports, write_transports, bad_fds, dfr,
                               adapterVars>>

\* The operating system closes the descriptor fd, which a transport may
\* still be registered for.
CloseFd(fd) ==
    /\ fd \notin bad_fds
    /\ bad_fds' = bad_fds \cup {fd}
    /\ call' = [op |-> "close_fd", t |-> None, err |-> None]
    /\ UNCHANGED <<read_transports, write_transports, queue, dfr, adapterVars>>

PollNext ==
    \/ ReactorNext
    \/ _handle_transports
    \/ _prune_bad_fds
    \/ \E fd \in FDs : CloseFd(fd)

SpecPoll == SelectingInit /\ [][PollNext]_vars

\* The fds registered in either map.
Registered == Keys(read_transports) \cup Keys(write_transports)

\* C17: the pruning step, which a poll failing with a bad-fd error enters,
\* raises no error; it removes every registered fd that is invalid from both
\* maps, enqueues the error for on_error of the transports it removes, and
\* leaves the valid fds' registrations in place.
C17_PruneBadFds ==
    [][call'.op = "_prune_bad_fds" =>
         /\ call'.err = None
         /\ read_transports' =
              [fd \in FDs |-> IF fd \in bad_fds THEN None
                              ELSE read_transports[fd]]
         /\ write_transports' =
              [fd \in FDs |-> IF fd \in bad_fds THEN None
                              ELSE write_transports[fd]]
         /\ \A fd \in Registered \cap bad_fds :
              \E i \in Len(queue) + 1 .. Len(queue') :
                  /\ queue'[i].fn = "on_error"
                  /\ queue'[i].t \in {read_transports[fd], write_transports[fd]}
      ]_vars

\* C18: one poll step, unless the poll fails with an error other than an
\* interruption, returns normally and leaves both maps unchanged; with no
\* registration it enqueues nothing, and otherwise it enqueues on_read(-1)
\* of the read map's transport for fds registered for read and on_write(-1)
\* of the write map's transport for fds registered for write, and no other
\* callback (none when interrupted by a signal).
C18_PollStep ==
    [][(call'.op = "_handle_transports" /\ call'.err # "EIO") =>
         /\ call'.err = None
         /\ read_transports' = read_transports
         /\ write_transports' = write_transports
         /\ \E r \in SUBSET Keys(read_transports),
               w \in SUBSET Keys(write_transports) :
                queue' = queue \o Callbacks(r, read_transports, "on_read")
                               \o Callbacks(w, write_transports, "on_write")
      ]_vars


(***************************************************************************)
(*        CodecTransport's reads over an inner transport that holds        *)
(*        the UTF-8 bytes of a text, or the first of them                  *)
(***************************************************************************)

\* "a", e acute and the euro sign: one, two and three bytes in UTF-8.
CodePoints == {97, 233, 8364}

\* The longest text, in code points.
MaxChars == 2

\* The most raw bytes a read() asks for.
MaxRaw == 3

\* The texts of at most n code points.
RECURSIVE Texts(_)
Texts(n) ==
    IF n = 0 THEN {<<>>}
    ELSE LET shorter == Texts(n - 1)
         IN  shorter \cup {Append(w, c) : w \in shorter, c \in CodePoints}

\* The inner transport holds the encoding of a text up to some byte, and
\* is at EOF after it.
CodecInit ==
    /\ ReactorInit
    /\ \E text \in Texts(MaxChars) : \E n \in 0 .. Len(encode(text)) :
         AdapterInit(DefaultCfg, Take(encode(text), n), TRUE)

CodecNext ==
    \/ \E t \in Callers({"a"}) : \E count \in {-1} \cup 1 .. MaxRaw :
         CallMethod(t, [fn |-> "Codec.read", count |-> count])
    \/ InnerRead("a")

SpecCodec == CodecInit /\ [][CodecNext]_vars

\* The text of the inner transport's bytes, decoded in one piece; err is
\* set when they end inside a multibyte sequence.
Whole == DecodeFrom(stream, TRUE)

\* The last read() returned a zero-length result.
ZeroLengthRead ==
    /\ Ended("Codec.read")
    /\ task["a"].out.k = "ret"
    /\ task["a"].out.v = <<>>

\* C12: on the encoding of a text t, cut into inner reads in any way, a
\* read() returns a zero-length result only when the inner transport is at
\* EOF, and the results of the reads up to it, concatenated, are t.
C12_CodecRoundTrip ==
    (Whole.err = None /\ ZeroLengthRead) =>
        /\ inner_in = <<>>
        /\ returned = Whole.text

\* C13: when the stream ends inside a multibyte sequence, the read() that
\* meets EOF (it is issued with nothing left in the inner transport) has the
\* decoder's final step resolve the bytes held back: it fails with a decoding
\* error, the policy being strict.
C13_FinalizeAtEOF ==
    (/\ Ended("Codec.read")
     /\ task["a"].before = <<>>
     /\ Whole.err # None) =>
        /\ task["a"].out.k = "raise"
        /\ task["a"].out.e = "UnicodeDecodeError"


(***************************************************************************)
(*      BufferedTransport's reads over an inner transport that another     *)
(*      holder of it closes, before or while a read is in flight           *)
(***************************************************************************)

\* The longest stream of the inner transport.
MaxClosedLen == 3

ClosedInit ==
    /\ ReactorInit
    /\ \E n \in 0 .. MaxClosedLen :
         AdapterInit(DefaultCfg, [i \in 1 .. n |-> i], TRUE)

ClosedNext ==
    \/ \E t \in Callers({"a"}) : \E count \in -1 .. MaxClosedLen :
         CallMethod(t, [fn |-> "Buffered.read", count |-> count, pc |-> "start"])
    \/ \E t \in Callers({"a"}) :
         \E count \in 1 .. MaxClosedLen, raise_on_eof \in BOOLEAN :
           CallMethod(t, [fn |-> "Buffered.read_exactly", count |-> count,
                          raise_on_eof |-> raise_on_eof, buffer |-> <<>>])
    \/ \E t \in Callers({"a"}) :
         CallMethod(t, [fn |-> "Buffered.read_all", chunk |-> ChunkSize,
                        chunks |-> <<>>])
    \/ \E t \in Callers({"a"}) : \E needle \in 1 .. MaxClosedLen :
         CallMethod(t, [fn |-> "Buffered.read_until", patterns |-> <<<<needle>>>>,
                        raise_on_eof |-> FALSE, include_pattern |-> TRUE,
                        eof |-> FALSE, last_index |-> 0])
    \/ \E t \in Callers({"b"}) : CallMethod(t, inner_close)
    \/ InnerRead("a")
    \/ InnerReadClosed("a")
    \/ InnerClose("b")

SpecClosed == ClosedInit /\ [][ClosedNext]_vars

\* C14: a read of the closed inner transport fails with TransportClosed, and
\* when that ends a call of read, read_exactly, read_until or read_all, the
\* call resolves with the TransportClosed error: not with a result, and not
\* with an end-of-stream error.
C14_ClosedNotEOF ==
    [][(/\ Pending("a", "inner.read")
        /\ inner_closed
        /\ stacks'["a"] = <<>>) =>
           /\ task'["a"].out.k = "raise"
           /\ task'["a"].out.e = "TransportClosed"
      ]_vars


(***************************************************************************)
(*      close() of the adapters, called again and again, over an inner     *)
(*      transport whose close always succeeds                              *)
(***************************************************************************)

Adapters ==
    {"BufferedTransport", "CodecTransport", "BoundTransport",
     "PacketTransport", "DuplexStreamTransport"}

\* The longest stream of the inner transport, and the largest read quota
\* of the bound transport.
MaxCloseLen == 2

\* One adapter, over an inner transport that is writable or not and holds
\* some bytes; a bound transport has a read quota.
CloseInit ==
    /\ ReactorInit
    /\ \E a \in Adapters, w \in BOOLEAN, quota, n \in 0 .. MaxCloseLen :
         AdapterInit([DefaultCfg EXCEPT !.adapter = a,
                                        !.writable = w,
                                        !.read_unbounded = FALSE,
                                        !.read_length = quota],
                     [i \in 1 .. n |-> i], TRUE)

\* The callers of S when the run's adapter is of class a.
CallersOf(a, S) == {t \in Callers(S) : cfg.adapter = a}

CloseNext ==
    \/ \E t \in CallersOf("BufferedTransport", {"a"})
                \cup CallersOf("PacketTransport", {"a"}) :
         CallMethod(t, [fn |-> "Buffered.write", data |-> NextData(1)])
    \/ \E t \in CallersOf("BufferedTransport", {"a"}) :
         CallMethod(t, [fn |-> "Buffered.close", pc |-> "start"])
    \/ \E t \in CallersOf("PacketTransport", {"a"}) :
         CallMethod(t, Packet_close)
    \/ \E t \in CallersOf("BoundTransport", {"a"}) :
         \E count \in 1 .. MaxCloseLen :
           CallMethod(t, [fn |-> "Bound.read", count |-> count, pc |-> "start"])
    \/ \E t \in CallersOf("BoundTransport", {"a"}) :
         CallMethod(t, [fn |-> "Bound.close", pc |-> "start"])
    \/ \E t \in CallersOf("CodecTransport", {"a"}) :
         CallMethod(t, [fn |-> "Codec.close", pc |-> "start"])
    \/ \E t \in CallersOf("DuplexStreamTransport", {"a"}) :
         CallMethod(t, [fn |-> "Duplex.close", pc |-> "start"])
    \/ InnerRead("a")
    \/ InnerReadClosed("a")
    \/ InnerWrite("a")
    \/ InnerWriteClosed("a")
    \/ InnerClose("a")
    \/ OutClose("a")

SpecClose == CloseInit /\ [][CloseNext]_vars

\* C15: a close() of an adapter resolves successfully, whatever closes were
\* made before it: it never raises.
C15_CloseNeverRaises ==
    (Ended("Buffered.close") \/ Ended("Bound.close")
        \/ Ended("Codec.close") \/ Ended("Duplex.close")) =>
        task["a"].out.k = "ret"

(***************************************************************************)
(*      DuplexStreamTransport.close() when closing a side may fail         *)
(***************************************************************************)

DuplexInit ==
    /\ ReactorInit
    /\ \E n \in 0 .. MaxClosedLen :
         AdapterInit(DefaultCfg, [i \in 1 .. n |-> i], TRUE)

DuplexNext ==
    \/ \E t \in Callers(Tasks) :
         CallMethod(t, [fn |-> "Duplex.close", pc |-> "start"])
    \/ \E t \in Callers(Tasks) : \E count \in 1 .. MaxClosedLen :
         CallMethod(t, inner_read(count))
    \/ \E t \in Tasks : InnerRead(t)
    \/ \E t \in Tasks : InnerReadClosed(t)
    \/ \E t \in Tasks : InnerClose(t)
    \/ \E t \in Tasks : InnerCloseFails(t)
    \/ \E t \in Tasks : OutClose(t)

SpecDuplex == DuplexInit /\ [][DuplexNext]_vars

\* C16: when close() of the duplex transport has ended, the output side is
\* closed, also when closing the input side failed; and a failure of a side
\* is reported by close().
C16_ClosesBoth ==
    \A t \in Tasks :
        (task[t].out.k \in {"ret", "raise"} /\ task[t].frame.fn = "Duplex.close") =>
            /\ out_closed
            /\ ~inner_closed => task[t].out.k = "raise"

=============================================================================
